---- MODULE Spec2Model ----
(***************************************************************************)
(* Model of simplefix.parser.FixParser (src/simplefix/parser.py).           *)
(*                                                                         *)
(* A byte is a natural number (its character code); a byte string is a      *)
(* sequence of bytes; a field is a byte string; the pending sequence        *)
(* (self.pairs) is a sequence of fields.  The parser state is the pair      *)
(* (buf, pairs).  The remaining variables describe the caller: the byte     *)
(* stream it is delivering, how far it got, the last call it made, the      *)
(* value that call returned, the parser state before that call, and the     *)
(* messages returned since the last reset; removed lists the fields taken   *)
(* out of the pending sequence since the last reset, in removal order.      *)
(***************************************************************************)
EXTENDS Naturals, Sequences, FiniteSets

VARIABLES buf, pairs, ret, op, arg, pre, out, stream, pos, removed

vars == <<buf, pairs, ret, op, arg, pre, out, stream, pos, removed>>

(***************************************************************************)
(* Bounds of the model.                                                    *)
(***************************************************************************)
\* Largest number of delimiter-terminated fields in a delivered stream.
MaxFields == 4

(***************************************************************************)
(* Bytes and byte strings.                                                 *)
(***************************************************************************)
\* The field delimiter, byte 0x01 (imported from simplefix.message).
SOH == 1

\* "8=FIX." : the prefix get_message compares the head field against.
BeginString == <<56, 61, 70, 73, 88, 46>>

\* "10=" : the prefix get_message scans the pending fields for.
CheckSum == <<49, 48, 61>>

\* Python slice s[:n].
Take(s, n) == SubSeq(s, 1, IF n < Len(s) THEN n ELSE Len(s))

\* self.pairs[0][:6] != "8=FIX." (negated)
IsBegin(f) == Take(f, 6) = BeginString

\* self.pairs[index][:3] != "10=" (negated)
IsCheckSum(f) == Take(f, 3) = CheckSum

\* Index of the first delimiter of s, or 0 when s has none.
RECURSIVE FindSOH(_, _)
FindSOH(s, i) ==
    IF i > Len(s) THEN 0
    ELSE IF s[i] = SOH THEN i
    ELSE FindSOH(s, i + 1)

\* Python s.split(SOH): the pieces between delimiters, one more than the
\* number of delimiters; never empty.
RECURSIVE Split(_)
Split(s) ==
    LET i == FindSOH(s, 1)
    IN  IF i = 0 THEN <<s>>
        ELSE <<SubSeq(s, 1, i - 1)>> \o Split(SubSeq(s, i + 1, Len(s)))

(***************************************************************************)
(* The message builder (simplefix.message.FixMessage): a message value is   *)
(* the ordered list of raw field strings it was fed.                       *)
(***************************************************************************)
FixMessage == <<>>

append_strings(m, string_list) == m \o string_list

\* Values returned to the caller.
None == [kind |-> "none", fields |-> <<>>, bytes |-> <<>>]

Message(m) == [kind |-> "msg", fields |-> m, bytes |-> <<>>]

Buffer(b) == [kind |-> "buf", fields |-> <<>>, bytes |-> b]

(***************************************************************************)
(* FixParser.                                                              *)
(***************************************************************************)
\* A reset that forgets to discard the parsed fields.
reset_keepsPairs(b, p) == [buf |-> <<>>, pairs |-> p]

\* reset() on a parser holding (b, p): self.buf = '' ; self.pairs = []
reset(b, p) == [buf |-> <<>>, pairs |-> <<>>]

\* An append that tokenizes what it is given.
append_buffer_parses(b, p, data) ==
    LET ps == Split(b \o data)
    IN  [buf |-> ps[Len(ps)], pairs |-> p \o SubSeq(ps, 1, Len(ps) - 1)]

\* append_buffer(buf) on a parser holding (b, p): self.buf += buf
append_buffer(b, p, data) == [buf |-> b \o data, pairs |-> p]

\* get_buffer(): return self.buf
get_buffer(b, p) == b

\* A tokenizer that forgets the trailing fragment.
Tokenize_dropsFragment(b, p) ==
    LET ps == Split(b)
    IN  [pairs |-> p \o SubSeq(ps, 1, Len(ps) - 1), buf |-> <<>>]

\* A tokenizer that assigns the new fields instead of extending.
Tokenize_replaces(b, p) ==
    LET ps == Split(b)
    IN  [pairs |-> SubSeq(ps, 1, Len(ps) - 1), buf |-> ps[Len(ps)]]

\* A tokenizer that splits off the first field only (split(SOH, 1)).
Tokenize_firstOnly(b, p) ==
    LET i == FindSOH(b, 1)
    IN  IF i = 0 THEN [pairs |-> p, buf |-> b]
        ELSE [pairs |-> Append(p, SubSeq(b, 1, i - 1)),
              buf   |-> SubSeq(b, i + 1, Len(b))]

\* A tokenizer that promotes the trailing fragment as well.
Tokenize_promotesAll(b, p) ==
    LET ps == Split(b)
    IN  [pairs |-> p \o SelectSeq(ps, LAMBDA f : f # <<>>), buf |-> <<>>]

\* get_message, first part: break the buffer into complete fields and the
\* trailing fragment.
Tokenize(b, p) ==
    LET ps == Split(b)
    IN  IF Len(ps) > 0
        THEN [pairs |-> p \o SubSeq(ps, 1, Len(ps) - 1),
              buf   |-> IF ps[Len(ps)] = <<>> THEN <<>> ELSE ps[Len(ps)]]
        ELSE [pairs |-> p, buf |-> b]

\* A resynchronisation that discards nothing.
Resync_none(p) == p

\* A resynchronisation that pops the head before testing it.
Resync_popsFirst(p) ==
    LET q == IF p = <<>> THEN p ELSE Tail(p)
        starts == {i \in 1..Len(q) : IsBegin(q[i])}
    IN  IF starts = {} THEN <<>>
        ELSE SubSeq(q, CHOOSE i \in starts : \A j \in starts : i <= j, Len(q))

\* A resynchronisation that gives up the pending fields when the head is
\* not a BeginString.
Resync_clears(p) == IF p # <<>> /\ ~IsBegin(p[1]) THEN <<>> ELSE p

\* A resynchronisation that tests the head once (if instead of while).
Resync_popsOne(p) == IF p # <<>> /\ ~IsBegin(p[1]) THEN Tail(p) ELSE p

\* A resynchronisation on the last BeginString instead of the first.
Resync_last(p) ==
    LET starts == {i \in 1..Len(p) : IsBegin(p[i])}
    IN  IF starts = {} THEN <<>>
        ELSE SubSeq(p, CHOOSE i \in starts : \A j \in starts : i >= j, Len(p))

\* get_message, second part: discard pairs until the head is a BeginString.
RECURSIVE Resync(_)
Resync(p) ==
    IF p # <<>> /\ ~IsBegin(p[1]) THEN Resync(Tail(p)) ELSE p

\* The fields the resynchronisation loop pops off p, in order.
RECURSIVE Popped(_)
Popped(p) ==
    IF p # <<>> /\ ~IsBegin(p[1]) THEN <<p[1]>> \o Popped(Tail(p)) ELSE <<>>

\* A scan that stops at the last checksum field instead of the first.
ScanCheckSum_last(p, index) ==
    LET ends == {i \in index..(Len(p) - 1) : IsCheckSum(p[i + 1])}
    IN  IF ends = {} THEN Len(p)
        ELSE CHOOSE i \in ends : \A j \in ends : i >= j

\* get_message, third part: the (0-based) index of the first checksum field
\* at or after index, or len(p) when there is none.
RECURSIVE ScanCheckSum(_, _)
ScanCheckSum(p, index) ==
    IF index < Len(p) /\ ~IsCheckSum(p[index + 1])
    THEN ScanCheckSum(p, index + 1)
    ELSE index

\* A frame that leaves the checksum field out.
Frame_withoutCheckSum(r, index) == SubSeq(r, 1, index)

\* get_message, fourth part: the fields handed to the message builder,
\* self.pairs[:index + 1].
Frame(r, index) == SubSeq(r, 1, index + 1)

\* A trim that leaves the checksum field pending (self.pairs[index:]).
Rest_keepsCheckSum(r, index) == SubSeq(r, index + 1, Len(r))

\* A trim that drops everything pending.
Rest_clears(r, index) == <<>>

\* get_message, fifth part: the fields left pending, self.pairs[index + 1:].
Rest(r, index) == SubSeq(r, index + 2, Len(r))

\* get_message(): the new buffer, the new pending sequence, the result.
get_message(b, p) ==
    LET t == Tokenize(b, p)
    IN  IF Len(t.pairs) = 0
        THEN [buf |-> t.buf, pairs |-> t.pairs, ret |-> None]
        ELSE
          LET r == Resync(t.pairs)
          IN  IF Len(r) = 0
              THEN [buf |-> t.buf, pairs |-> r, ret |-> None]
              ELSE
                LET index == ScanCheckSum(r, 0)
                IN  IF index = Len(r)
                    THEN [buf |-> t.buf, pairs |-> r, ret |-> None]
                    ELSE [buf   |-> t.buf,
                          pairs |-> Rest(r, index),
                          ret   |-> Message(append_strings(FixMessage,
                                              Frame(r, index)))]

(***************************************************************************)
(* The caller: the byte streams it may deliver.                            *)
(***************************************************************************)
\* Fields a stream is made of: "8=FIX.", "10=", "9=5", "8=".
Pool == { <<56, 61, 70, 73, 88, 46>>, <<49, 48, 61>>, <<57, 61, 53>>, <<56, 61>> }

\* The wire form of a field list: every field followed by a delimiter.
RECURSIVE Wire(_)
Wire(fl) == IF fl = <<>> THEN <<>> ELSE fl[1] \o <<SOH>> \o Wire(Tail(fl))

\* "8=FIX.4.2|9=5|35=0|10=128|"
Scenario ==
    Wire(<< <<56, 61, 70, 73, 88, 46, 52, 46, 50>>, <<57, 61, 53>>,
            <<51, 53, 61, 48>>, <<49, 48, 61, 49, 50, 56>> >>)

\* A message cut short inside a field, then a complete message:
\* "8=FIX.|9=" "8=FIX.|10=|" and "8=FIX.|10" "8=FIX.|10=|".
CutShort ==
    { <<56, 61, 70, 73, 88, 46, SOH, 57, 61>>
        \o <<56, 61, 70, 73, 88, 46, SOH, 49, 48, 61, SOH>>,
      <<56, 61, 70, 73, 88, 46, SOH, 49, 48>>
        \o <<56, 61, 70, 73, 88, 46, SOH, 49, 48, 61, SOH>> }

Streams ==
    { Wire(fl) : fl \in UNION { [1..k -> Pool] : k \in 0..MaxFields } }
      \cup { Scenario } \cup CutShort

\* Complete well-formed messages a caller may send to get going again:
\* "8=FIX.|10=|", "8=FIX.|9=5|10=|" and the scenario.
Recovery ==
    { Wire(<< <<56, 61, 70, 73, 88, 46>>, <<49, 48, 61>> >>),
      Wire(<< <<56, 61, 70, 73, 88, 46>>, <<57, 61, 53>>, <<49, 48, 61>> >>),
      Scenario }

\* The parser state as the caller's history records it.
Snapshot == [buf |-> buf, pairs |-> pairs, out |-> out]

\* The bytes appended since the last reset.
fed == SubSeq(stream, 1, pos)

(***************************************************************************)
(* The state machine.                                                      *)
(***************************************************************************)
Init ==
    /\ buf = reset(<<>>, <<>>).buf
    /\ pairs = reset(<<>>, <<>>).pairs
    /\ ret = None
    /\ op = "init"
    /\ arg = <<>>
    /\ pre = [buf |-> <<>>, pairs |-> <<>>, out |-> <<>>]
    /\ out = <<>>
    /\ stream \in Streams
    /\ pos = 0
    /\ removed = <<>>

\* parser.reset(); the caller starts its stream over.
Reset ==
    /\ buf' = reset(buf, pairs).buf
    /\ pairs' = reset(buf, pairs).pairs
    /\ ret' = None
    /\ op' = "reset"
    /\ arg' = <<>>
    /\ pre' = Snapshot
    /\ out' = <<>>
    /\ stream' = stream
    /\ pos' = 0
    /\ removed' = <<>>

\* parser.append_buffer(data), data the next n bytes of the stream.
AppendBuffer ==
    \E n \in 0..(Len(stream) - pos) :
        LET data == SubSeq(stream, pos + 1, pos + n)
            s == append_buffer(buf, pairs, data)
        IN  /\ buf' = s.buf
            /\ pairs' = s.pairs
            /\ ret' = None
            /\ op' = "append_buffer"
            /\ arg' = data
            /\ pre' = Snapshot
            /\ pos' = pos + n
            /\ UNCHANGED <<out, stream, removed>>

\* parser.get_buffer()
GetBuffer ==
    /\ ret' = Buffer(get_buffer(buf, pairs))
    /\ op' = "get_buffer"
    /\ arg' = <<>>
    /\ pre' = Snapshot
    /\ UNCHANGED <<buf, pairs, out, stream, pos, removed>>

\* parser.get_message()
GetMessage ==
    LET s == get_message(buf, pairs)
    IN  /\ buf' = s.buf
        /\ pairs' = s.pairs
        /\ ret' = s.ret
        /\ op' = "get_message"
        /\ arg' = <<>>
        /\ pre' = Snapshot
        /\ out' = IF s.ret = None THEN out ELSE Append(out, s.ret.fields)
        /\ removed' = removed \o Popped(Tokenize(buf, pairs).pairs)
                               \o s.ret.fields
        /\ UNCHANGED <<stream, pos>>

Next == Reset \/ AppendBuffer \/ GetBuffer \/ GetMessage

Spec == Init /\ [][Next]_vars

(***************************************************************************)
(* Vocabulary of the properties.                                           *)
(***************************************************************************)
\* The delimiter-terminated fields of a byte string, in order.
Fields(s) == LET ps == Split(s) IN SubSeq(ps, 1, Len(ps) - 1)

IsPrefix(a, b) == Len(a) <= Len(b) /\ SubSeq(b, 1, Len(a)) = a

\* A well-formed message: delimiter-terminated fields, the first a start
\* marker, the last an end marker, no other end marker.
WellFormed(s) ==
    /\ s # <<>>
    /\ s[Len(s)] = SOH
    /\ LET F == Fields(s)
       IN  /\ Len(F) >= 2
           /\ IsBegin(F[1])
           /\ IsCheckSum(F[Len(F)])
           /\ \A i \in 1..(Len(F) - 1) : ~IsCheckSum(F[i])

\* The places where s splits into two well-formed messages.
PipelineCuts(s) ==
    {k \in 1..(Len(s) - 1) :
        WellFormed(SubSeq(s, 1, k)) /\ WellFormed(SubSeq(s, k + 1, Len(s)))}

\* The number of leading complete fields of s that are not start markers.
RECURSIVE Leading(_)
Leading(F) ==
    IF F # <<>> /\ ~IsBegin(F[1]) THEN 1 + Leading(Tail(F)) ELSE 0

\* s is complete non-start-marker fields followed by a well-formed message.
GarbageThenMessage(s) ==
    /\ s # <<>>
    /\ s[Len(s)] = SOH
    /\ Leading(Fields(s)) >= 1
    /\ WellFormed(Wire(SubSeq(Fields(s), Leading(Fields(s)) + 1,
                              Len(Fields(s)))))

\* A pending sequence holding the head of a message and no end marker.
PartialFrame(p) ==
    /\ p # <<>>
    /\ IsBegin(p[1])
    /\ \A i \in 1..Len(p) : ~IsCheckSum(p[i])

\* A message cut short: its start-marker field is complete, no end marker
\* has begun.
Truncated(t) ==
    LET ps == Split(t)
    IN  /\ Len(ps) >= 2
        /\ IsBegin(ps[1])
        /\ \A i \in 1..Len(ps) : ~IsCheckSum(ps[i])

\* The places where s splits into a truncated message and a complete one.
TruncationCuts(s) ==
    {k \in 1..(Len(s) - 1) :
        Truncated(SubSeq(s, 1, k)) /\ WellFormed(SubSeq(s, k + 1, Len(s)))}

\* Appending all of s to a fresh parser and extracting once.
OneShot(s) ==
    LET a == append_buffer(reset(<<>>, <<>>).buf, reset(<<>>, <<>>).pairs, s)
    IN  get_message(a.buf, a.pairs)

\* Calling get_message on (b, p) until it returns None; o collects the
\* messages returned.
RECURSIVE Drain(_, _, _)
Drain(b, p, o) ==
    LET g == get_message(b, p)
    IN  IF g.ret = None
        THEN [buf |-> g.buf, pairs |-> g.pairs, out |-> o]
        ELSE Drain(g.buf, g.pairs, Append(o, g.ret.fields))

\* First get_message call of the current run that can see all of the stream.
FirstAfterAll ==
    op = "get_message" /\ pos = Len(stream) /\ pre.out = <<>>

(***************************************************************************)
(* C1  Fragmentation invariance.  For a well-formed message delivered in    *)
(* any consecutive chunks to a fresh parser, with get_message calls in      *)
(* between, every get_message before the last byte has been appended        *)
(* returns None, and the first get_message after it returns the message     *)
(* that appending the whole message at once and extracting once returns.    *)
(***************************************************************************)
C1_FragmentationInvariance ==
    (WellFormed(stream) /\ op = "get_message" /\ pre.out = <<>>) =>
        IF pos < Len(stream)
        THEN ret = None
        ELSE ret.kind = "msg" /\ ret = OneShot(stream).ret

\* A message completed from fields tokenized earlier and a buffered fragment.
C1_Witness ==
    /\ WellFormed(stream) /\ FirstAfterAll
    /\ pre.pairs # <<>> /\ pre.buf # <<>> /\ pre.buf # stream
    /\ ret.kind = "msg"

(***************************************************************************)
(* C2  Pipelining.  When the stream is two well-formed messages M1 M2 and   *)
(* all of it has been appended, the get_message calls return M1's fields,   *)
(* then M2's fields, then None.                                            *)
(***************************************************************************)
C2_Pipelining ==
    \A k \in PipelineCuts(stream) :
        LET m1 == Fields(SubSeq(stream, 1, k))
            m2 == Fields(SubSeq(stream, k + 1, Len(stream)))
        IN  (op = "get_message" /\ pos = Len(stream)) =>
                CASE Len(pre.out) = 0 -> ret = Message(m1)
                  [] Len(pre.out) = 1 -> pre.out = <<m1>> /\ ret = Message(m2)
                  [] OTHER -> pre.out = <<m1, m2>> /\ ret = None

\* The third call after both messages came out of one buffer.
C2_Witness ==
    /\ PipelineCuts(stream) # {}
    /\ op = "get_message" /\ pos = Len(stream)
    /\ Len(out) = 2 /\ pre.out = out /\ ret = None
    /\ pre.buf = <<>> /\ pre.pairs = <<>>

(***************************************************************************)
(* C3  Resynchronization.  When the stream is complete fields none of       *)
(* which is a start marker (end markers included) followed by a             *)
(* well-formed message M, the first get_message that sees all of it         *)
(* returns exactly M's fields.                                             *)
(***************************************************************************)
C3_Resynchronization ==
    (GarbageThenMessage(stream) /\ FirstAfterAll) =>
        ret = Message(SubSeq(Fields(stream), Leading(Fields(stream)) + 1,
                             Len(Fields(stream))))

\* One append of garbage holding an end marker, then the message.
C3_Witness ==
    /\ GarbageThenMessage(stream) /\ FirstAfterAll
    /\ pre.buf = stream /\ pre.pairs = <<>>
    /\ \E i \in 1..Leading(Fields(stream)) : IsCheckSum(Fields(stream)[i])
    /\ ret.kind = "msg"

(***************************************************************************)
(* C4  Partial-frame stability.  While the pending sequence is a start      *)
(* marker followed by fields with no end marker, append_buffer, get_buffer  *)
(* and a get_message returning None keep all of it pending, in order; and   *)
(* get_message returns None exactly as long as no end marker has been       *)
(* completed in the buffer, then returns one message: the pending fields    *)
(* followed by the newly completed fields up to the end marker.            *)
(***************************************************************************)
C4_PartialFrameStability ==
    PartialFrame(pre.pairs) =>
        /\ (op \in {"append_buffer", "get_buffer"}
              \/ (op = "get_message" /\ ret = None))
             => IsPrefix(pre.pairs, pairs)
        /\ op = "get_message" =>
             LET new == Fields(pre.buf)
                 ends == {i \in 1..Len(new) : IsCheckSum(new[i])}
             IN  IF ends = {}
                 THEN ret = None /\ pairs = pre.pairs \o new
                 ELSE ret = Message(pre.pairs \o SubSeq(new, 1,
                            CHOOSE i \in ends : \A j \in ends : i <= j))

\* A frame kept pending over earlier calls and then completed.
C4_Witness ==
    /\ PartialFrame(pre.pairs) /\ Len(pre.pairs) >= 2
    /\ op = "get_message" /\ ret.kind = "msg"
    /\ Len(ret.fields) > Len(pre.pairs)

(***************************************************************************)
(* C5  Round trip.  One append of one well-formed message to a fresh        *)
(* parser and one get_message return the input fields in order and leave    *)
(* the buffer and the pending sequence empty; "8=FIX.4.2|9=5|35=0|10=128|"  *)
(* gives the fields 8=FIX.4.2, 9=5, 35=0, 10=128.                          *)
(***************************************************************************)
C5_RoundTrip ==
    (WellFormed(stream) /\ op = "get_message"
       /\ pre.buf = stream /\ pre.pairs = <<>> /\ pre.out = <<>>) =>
        /\ ret = Message(Fields(stream))
        /\ buf = <<>>
        /\ pairs = <<>>
        /\ stream = Scenario =>
             ret.fields = << <<56, 61, 70, 73, 88, 46, 52, 46, 50>>,
                             <<57, 61, 53>>, <<51, 53, 61, 48>>,
                             <<49, 48, 61, 49, 50, 56>> >>

\* The concrete scenario, extracted.
C5_Witness ==
    /\ stream = Scenario /\ op = "get_message"
    /\ pre.buf = stream /\ pre.pairs = <<>> /\ pre.out = <<>>
    /\ Len(ret.fields) = 4

(***************************************************************************)
(* C6  Chunking independence.  Whatever the stream and however its bytes    *)
(* were split over append_buffer calls, whenever get_message returns None   *)
(* the messages returned so far, the buffer and the pending sequence are    *)
(* those of appending the same bytes in one chunk and calling get_message   *)
(* until it returns None.                                                  *)
(***************************************************************************)
C6_ChunkingIndependence ==
    (op = "get_message" /\ ret = None) =>
        [buf |-> buf, pairs |-> pairs, out |-> out] = Drain(fed, <<>>, <<>>)

\* A drained run that returned a message, tokenized in pieces, with a frame
\* pending and a fragment buffered.
C6_Witness ==
    /\ op = "get_message" /\ ret = None
    /\ Len(out) >= 1 /\ pairs # <<>> /\ buf # <<>>
    /\ Len(pre.pairs) >= 1 /\ pre.buf # <<>>

(***************************************************************************)
(* C7  (as stated) Whenever get_message returns None, the buffer and the    *)
(* pending sequence are what they were before the call.                    *)
(***************************************************************************)
C7_StatePreservedOnFailure ==
    (op = "get_message" /\ ret = None) =>
        buf = pre.buf /\ pairs = pre.pairs

(***************************************************************************)
(* C7  (amended) Whenever get_message returns None, the unconsumed bytes    *)
(* (every pending field with its delimiter, then the buffer) are those      *)
(* before the call less leading complete fields, none of which is a start   *)
(* marker: nothing from the first start marker on is lost.                 *)
(***************************************************************************)
C7_NothingLostOnFailure ==
    (op = "get_message" /\ ret = None) =>
        LET all == pre.pairs \o Fields(pre.buf)
            d == Len(all) - Len(pairs)
        IN  /\ Len(pairs) <= Len(all)
            /\ pairs = SubSeq(all, d + 1, Len(all))
            /\ \A i \in 1..d : ~IsBegin(all[i])
            /\ Wire(pre.pairs) \o pre.buf
                 = Wire(SubSeq(all, 1, d)) \o Wire(pairs) \o buf

\* A None-returning call that shrank the pending sequence and kept a frame.
C7_Witness ==
    /\ op = "get_message" /\ ret = None
    /\ Len(pairs) < Len(pre.pairs) /\ pairs # <<>>

(***************************************************************************)
(* C8  (as stated) When the stream is a truncated message (start marker,    *)
(* no end marker) followed by a well-formed message M, the message          *)
(* returned holds exactly M's fields.                                      *)
(***************************************************************************)
C8_ResyncAfterTruncated ==
    \A k \in TruncationCuts(stream) :
        (FirstAfterAll /\ ret.kind = "msg") =>
            ret.fields = Fields(SubSeq(stream, k + 1, Len(stream)))

(***************************************************************************)
(* C8  (amended) When the stream is a truncated message followed by a       *)
(* well-formed message M, the first get_message that sees all of it         *)
(* returns one message holding every field of the stream: it starts with    *)
(* the truncated message's complete fields and, when the cut is on a        *)
(* field boundary, continues with exactly M's fields.                      *)
(***************************************************************************)
C8_TruncatedIsMerged ==
    \A k \in TruncationCuts(stream) :
        LET t == SubSeq(stream, 1, k)
            m == SubSeq(stream, k + 1, Len(stream))
        IN  FirstAfterAll =>
              /\ ret = Message(Fields(stream))
              /\ IsPrefix(Fields(t), ret.fields)
              /\ t[Len(t)] = SOH => ret.fields = Fields(t) \o Fields(m)

\* A truncated message with a body field, merged with the next message.
C8_Witness ==
    /\ \E k \in TruncationCuts(stream) :
          /\ stream[k] = SOH
          /\ Len(Fields(SubSeq(stream, 1, k))) >= 2
    /\ FirstAfterAll /\ ret.kind = "msg"

(***************************************************************************)
(* C9  reset is unconditional.  After reset the buffer and the pending      *)
(* sequence are empty, as after construction, whatever they held.          *)
(***************************************************************************)
C9_ResetUnconditional ==
    op = "reset" =>
        /\ buf = <<>>
        /\ pairs = <<>>
        /\ get_message(buf, pairs) = [buf |-> <<>>, pairs |-> <<>>, ret |-> None]

\* A reset of a parser holding a pending start marker and a fragment.
C9_Witness ==
    /\ op = "reset"
    /\ PartialFrame(pre.pairs) /\ pre.buf # <<>>

(***************************************************************************)
(* C10  append performs no parsing.  After append_buffer(b) the pending     *)
(* sequence is unchanged and get_buffer gives the previous buffer followed  *)
(* by b; get_buffer changes neither.                                       *)
(***************************************************************************)
C10_AppendDoesNotParse ==
    /\ op = "append_buffer" =>
         /\ pairs = pre.pairs
         /\ get_buffer(buf, pairs) = pre.buf \o arg
    /\ op = "get_buffer" =>
         /\ ret = Buffer(pre.buf)
         /\ buf = pre.buf
         /\ pairs = pre.pairs

\* An append of bytes holding a whole message to a non-empty parser.
C10_Witness ==
    /\ op = "append_buffer"
    /\ pre.buf # <<>> /\ pre.pairs # <<>>
    /\ \E i \in 1..Len(arg) : \E j \in i..Len(arg) : WellFormed(SubSeq(arg, i, j))
(***************************************************************************)
(* Further vocabulary.                                                     *)
(***************************************************************************)
\* The places of b where a delimiter is followed by a well-formed message
\* that ends b.
RecoveryPoints(b) ==
    {i \in 1..Len(b) :
        b[i] = SOH /\ WellFormed(SubSeq(b, i + 1, Len(b)))}

\* The fields get_message had to work on: those pending before the call
\* followed by those completed in the buffer.
Available == pre.pairs \o Fields(pre.buf)

(***************************************************************************)
(* C11  No unrecoverable state.  From every reachable state, appending a    *)
(* delimiter followed by a complete well-formed message and calling         *)
(* get_message returns a message; and every get_message call made on a      *)
(* buffer that ends with a delimiter followed by a well-formed message      *)
(* returned one.                                                           *)
(***************************************************************************)
C11_AlwaysRecoverable ==
    /\ \A m \in Recovery :
          LET a == append_buffer(buf, pairs, <<SOH>> \o m)
          IN  get_message(a.buf, a.pairs).ret.kind = "msg"
    /\ (op = "get_message" /\ RecoveryPoints(pre.buf) # {})
          => ret.kind = "msg"

\* A parser holding a pending frame and an unfinished field, recovered.
C11_Witness ==
    /\ op = "get_message" /\ ret.kind = "msg"
    /\ pre.pairs # <<>>
    /\ \E i \in RecoveryPoints(pre.buf) :
          i >= 2 /\ \A j \in 1..(i - 1) : pre.buf[j] # SOH

\* A field of tag 8 (BeginString), whatever its value: it starts "8=".
IsTag8(f) == Take(f, 2) = <<56, 61>>

\* The number of fields the last get_message call discarded.
Discarded == Len(Available) - Len(ret.fields) - Len(pairs)

(***************************************************************************)
(* C12  Only non-BeginString fields are discarded.  The fields a            *)
(* get_message call discards are the leading available fields whose tag is  *)
(* not 8: no field of tag 8 is among them, whatever its value, and the      *)
(* field the discarding stopped at, if any, has tag 8.                     *)
(***************************************************************************)
C12_OnlyNonBeginStringDiscarded ==
    op = "get_message" =>
        /\ \A i \in 1..Discarded : ~IsTag8(Available[i])
        /\ Discarded < Len(Available) => IsTag8(Available[Discarded + 1])

\* No delimiter byte in b.
NoSOH(b) == \A i \in 1..Len(b) : b[i] # SOH

(***************************************************************************)
(* C13  (as stated) In every reachable state, observed between calls, the   *)
(* raw buffer contains no delimiter byte.                                  *)
(***************************************************************************)
C13_BufferNeverHoldsDelimiter == NoSOH(buf)

(***************************************************************************)
(* C13  (amended) After construction, after reset and after every           *)
(* get_message call the raw buffer contains no delimiter byte; a buffer     *)
(* that holds one has been appended to since the last get_message.         *)
(***************************************************************************)
C13_NoDelimiterAfterExtraction ==
    op \in {"init", "reset", "get_message"} => NoSOH(buf)

\* A call that promoted delimiter-terminated fields and kept a fragment.
C13_Witness ==
    /\ op = "get_message"
    /\ ~NoSOH(pre.buf)
    /\ buf # <<>>

(***************************************************************************)
(* C14  (as stated) After every get_message call the pending sequence is    *)
(* empty, or has a start marker at its head and holds no end marker.       *)
(***************************************************************************)
C14_OnlyEmptyOrScanningEndPersists ==
    op = "get_message" => (pairs = <<>> \/ PartialFrame(pairs))

(***************************************************************************)
(* C14  (amended) After every get_message call that returns None the        *)
(* pending sequence is empty, or has a start marker at its head and holds   *)
(* no end marker.  (After a call that returns a message the fields behind   *)
(* the frame stay pending as they are.)                                    *)
(***************************************************************************)
C14_FramingStateAfterNone ==
    (op = "get_message" /\ ret = None) =>
        (pairs = <<>> \/ PartialFrame(pairs))

\* A None-returning call that discarded fields and kept a partial frame.
C14_Witness ==
    /\ op = "get_message" /\ ret = None
    /\ PartialFrame(pairs) /\ Len(pairs) >= 2
    /\ Discarded >= 1

(***************************************************************************)
(* C15  Frame shape.  Every message returned is a contiguous run of the     *)
(* available fields, in order: first a start marker, last an end marker,    *)
(* no other end marker; only non-start fields come before it, exactly the   *)
(* fields behind it stay pending, and it is recorded once.                 *)
(***************************************************************************)
C15_FrameShape ==
    (op = "get_message" /\ ret.kind = "msg") =>
        LET m == ret.fields
        IN  /\ Discarded >= 0
            /\ Available = SubSeq(Available, 1, Discarded) \o m \o pairs
            /\ \A i \in 1..Discarded : ~IsBegin(Available[i])
            /\ Len(m) >= 2
            /\ IsBegin(m[1])
            /\ IsCheckSum(m[Len(m)])
            /\ \A i \in 1..(Len(m) - 1) : ~IsCheckSum(m[i])
            /\ out = Append(pre.out, m)

\* A message cut out between discarded fields and fields left pending that
\* hold another end marker.
C15_Witness ==
    /\ op = "get_message" /\ ret.kind = "msg"
    /\ Discarded >= 1
    /\ \E i \in 1..Len(pairs) : IsCheckSum(pairs[i])

(***************************************************************************)
(* C16  Byte conservation.  In every state, the fields removed from the     *)
(* pending sequence since the last reset (discarded or returned, in         *)
(* removal order), then the pending fields, each followed by a delimiter,   *)
(* then the raw buffer, are exactly the bytes appended since that reset.   *)
(***************************************************************************)
C16_ByteConservation ==
    Wire(removed) \o Wire(pairs) \o buf = fed

\* Discarded fields, then a returned message, and fields still pending.
C16_Witness ==
    /\ Len(out) >= 1
    /\ removed # <<>> /\ ~IsBegin(removed[1])
    /\ pairs # <<>>

(***************************************************************************)
(* C17  Drain termination.  Every get_message call that returns a message   *)
(* takes at least two fields out of the pending sequence; and from every    *)
(* state, calling get_message until it returns None ends, after at most     *)
(* floor(n / 2) messages, n the number of complete fields available.       *)
(***************************************************************************)
C17_DrainTerminates ==
    /\ (op = "get_message" /\ ret.kind = "msg")
          => Len(pairs) + 2 <= Len(Available)
    /\ 2 * Len(Drain(buf, pairs, <<>>).out)
          <= Len(pairs) + Len(Fields(buf))

\* Bytes appended to pending fields, with two messages to drain.
C17_Witness ==
    /\ op = "append_buffer"
    /\ pairs # <<>>
    /\ Len(Drain(buf, pairs, <<>>).out) = 2

(***************************************************************************)
(* C18  Idempotent failed extraction.  After a get_message call that        *)
(* returned None, another get_message call returns None and leaves the      *)
(* raw buffer and the pending sequence as they are.                        *)
(***************************************************************************)
C18_FailedExtractionIdempotent ==
    (op = "get_message" /\ ret = None) =>
        get_message(buf, pairs) = [buf |-> buf, pairs |-> pairs, ret |-> None]

\* A second None-returning call in a row on a partial frame and a fragment.
C18_Witness ==
    /\ op = "get_message" /\ ret = None
    /\ pre.buf = buf /\ pre.pairs = pairs
    /\ PartialFrame(pairs) /\ buf # <<>>
====
